---- MODULE Spec2Model ----
(***************************************************************************)
(* Model of the two components of the application.                         *)
(*                                                                         *)
(* WalletTracker (src/unnamed/part_001): the React state of the component, *)
(* the fetchWalletData async function with its suspension points, and the  *)
(* RPC collaborator as the environment that settles each request.          *)
(*                                                                         *)
(* UserSidebar (src/app/components/UserSidebar.tsx): the React state of    *)
(* the component, the handlers of the search box and of the metrics        *)
(* popover, and the derived views filteredAndSortedUsers and rankedUsers.  *)
(*                                                                         *)
(* The two parseTransactionType classifiers, structural (part_001) and     *)
(* heuristic (UserSidebar.tsx:764-800), as functions of a transaction.     *)
(*                                                                         *)
(* An optional JavaScript value (T | null | undefined) is a sequence of    *)
(* length at most one: None is <<>>, Some(x) is <<x>>.                     *)
(***************************************************************************)
EXTENDS Integers, Sequences, FiniteSets, TLC

None == <<>>
Some(x) == <<x>>

(* ------------------------------ bounds --------------------------------- *)

\* Longest signature history the RPC returns in the single-writer flow.
MaxSigs == 3
\* Longest signature history the RPC returns when invocations overlap.
MaxSigsOverlap == 2
\* batchSize is 25 in the source (part_001:87); it is scaled down so that
\* several rounds, full and partial, occur within MaxSigs signatures.
batchSize == 2
\* Longest users list of the sidebar (100 users in the source, scaled).
MaxUsers == 3
\* How many metrics of ALL_METRICS (12 in the source) are operated in the
\* metrics popover.
MaxMetrics == 2
\* Longest account list of a transaction body given to the classifiers.
MaxAccounts == 2
\* Most amounts in the log text of a transaction body.
MaxAmounts == 2

(* --------------------------- program constants ------------------------- *)

LAMPORTS_PER_SOL == 1000000000
DEFAULT_WALLET == "7C4jsPZpht42Tw6MjXWF56Q5RQUocjBBmciEjDa8HRtp"

(* ------------------------------ inputs --------------------------------- *)

\* Strings the user can have in the address box.  "" is the emptied box,
\* "short" is a string that does not decode to a 32-byte key.
Addresses == {DEFAULT_WALLET, "short", ""}

\* new PublicKey(s) succeeds exactly on the strings that decode to 32 bytes.
DecodesToPublicKey(s) == s = DEFAULT_WALLET

\* Message of the error thrown by new PublicKey on a malformed string.
InvalidPublicKeyMessage == "Invalid public key input"

\* Messages of a rejected getAccountInfo / getConfirmedSignaturesForAddress2.
AccountInfoErrors == {"failed to get info about account"}
SignaturesErrors == {"failed to get confirmed signatures for address"}

\* lamports field of an existing account.
AccountLamports == {0, 2 * LAMPORTS_PER_SOL}

\* <<blockTime, err>> of a signature record: blockTime is number | null and
\* err is object | null.
SigKinds == {<<None, None>>, <<Some(1), None>>, <<Some(2), None>>,
             <<Some(2), Some("InstructionError")>>}
\* Reduced domain for the overlapping flow and the flow with fairness.
SigKindsReduced == {<<Some(1), None>>}

\* Parsed transactions the SDK hands to the pipeline.  The SDK validates the
\* response shape, so message.accountKeys and every key's pubkey are present.
\* A log line is the sequence of its tokens.
BodyTransfer ==
    [meta |-> Some([err |-> None,
                    logMessages |-> Some(<<<<"Program log:", "Transfer">>,
                                           <<"Program", "invoke">>>>),
                    preBalances |-> Some(<<2 * LAMPORTS_PER_SOL, 500000000>>),
                    postBalances |-> Some(<<LAMPORTS_PER_SOL, 500000000>>),
                    innerInstructions |-> None]),
     message |-> Some([accountKeys |-> Some(<<Some("acctA"), Some("acctB")>>),
                       instructions |-> <<"ix">>])]
\* The same transaction with meta.err set.
BodyFailed ==
    [meta |-> Some([BodyTransfer.meta[1] EXCEPT !.err = Some("InstructionError")]),
     message |-> BodyTransfer.message]
\* Bodies a getParsedTransaction request resolves with in the explored flows.
TxBodies == {BodyTransfer, BodyFailed}

(* --------------------------- pure functions ---------------------------- *)

\* JavaScript truthiness of an optional number: null, undefined and 0 are falsy.
Truthy(opt) == opt # None /\ opt[1] # 0

\* opt || dflt on an optional number.
OrElse(opt, dflt) == IF Truthy(opt) THEN opt[1] ELSE dflt

\* Array.prototype.slice(from, to) with 0-based from, exclusive to, clamped.
Slice(s, from, to) ==
    LET hi == IF to < Len(s) THEN to ELSE Len(s)
    IN  IF from >= hi THEN <<>> ELSE SubSeq(s, from + 1, hi)

\* Number.prototype.toFixed(4) of a SOL amount given in lamports: the amount
\* in units of 0.0001 SOL, rounded to nearest (half away from zero).
Abs(n) == IF n < 0 THEN -n ELSE n
Sign(n) == IF n < 0 THEN -1 ELSE 1
ToFixed4(lamports) ==
    Sign(lamports) * ((Abs(lamports) + 50000) \div 100000)

\* parseTransactionType throws a TypeError when accountKeys is missing or a
\* key has no pubkey (part_001:22).
ParseThrows(tx) ==
    /\ tx.meta # None
    /\ tx.message # None
    /\ \/ tx.message[1].accountKeys = None
       \/ \E k \in 1..Len(tx.message[1].accountKeys[1]) :
              tx.message[1].accountKeys[1][k] = None

\* BalanceChangeAt testing the change as printed, rounded to four places.
BalanceChangeAtRounded(account, index, preBalances, postBalances) ==
    LET hasPre == index <= Len(preBalances)
        hasPost == index <= Len(postBalances)
    IN  IF ~hasPre \/ ~hasPost
        THEN Some([account |-> account, change |-> "NaN"])
        ELSE LET change == postBalances[index] - preBalances[index]
             IN  IF ToFixed4(change) # 0
                 THEN Some([account |-> account,
                            change |-> ToString(ToFixed4(change))])
                 ELSE None

\* One entry of balanceChanges, or None when the change is 0.  A missing
\* pre or post balance makes the change NaN, which differs from 0.
BalanceChangeAt(account, index, preBalances, postBalances) ==
    LET hasPre == index <= Len(preBalances)
        hasPost == index <= Len(postBalances)
    IN  IF ~hasPre \/ ~hasPost
        THEN Some([account |-> account, change |-> "NaN"])
        ELSE LET change == postBalances[index] - preBalances[index]
             IN  IF change # 0
                 THEN Some([account |-> account,
                            change |-> ToString(ToFixed4(change))])
                 ELSE None

IsSome(opt) == opt # None
RECURSIVE MapUnwrap(_)
MapUnwrap(s) == IF s = <<>> THEN <<>> ELSE <<Head(s)[1]>> \o MapUnwrap(Tail(s))

NotProgramLog(log) == \A k \in 1..Len(log) : log[k] # "Program log:"

\* The structural classifier; defined where ParseThrows(tx) is false.
parseTransactionType(tx) ==
    IF tx.meta = None \/ tx.message = None
    THEN [description |-> "Unknown Transaction"]
    ELSE
      LET meta == tx.meta[1]
          message == tx.message[1]
          instructions == message.instructions
          parsedInstructions ==
              IF meta.innerInstructions # None /\ meta.innerInstructions[1] # <<>>
              THEN meta.innerInstructions[1][1]
              ELSE instructions
          logs == IF meta.logMessages # None THEN meta.logMessages[1] ELSE <<>>
          accounts == MapUnwrap(message.accountKeys[1])
          preBalances == IF meta.preBalances # None THEN meta.preBalances[1] ELSE <<>>
          postBalances == IF meta.postBalances # None THEN meta.postBalances[1] ELSE <<>>
          mapped == [index \in 1..Len(accounts) |->
                        BalanceChangeAt(accounts[index], index, preBalances, postBalances)]
          balanceChanges == MapUnwrap(SelectSeq(mapped, IsSome))
      IN  [description |-> "Transaction Details",
           accounts |-> accounts,
           balanceChanges |-> balanceChanges,
           logs |-> SelectSeq(logs, NotProgramLog),
           instructions |-> parsedInstructions]

\* new Date(blockTime * 1000).toLocaleString(), or the sentinel.
Timestamp(blockTime) ==
    IF Truthy(blockTime) THEN "date:" \o ToString(blockTime[1] * 1000)
    ELSE "Unknown time"

\* TransactionRecord reading the error off the transaction's metadata.
TransactionRecordFromMeta(sig, tx) ==
    [signature |-> sig.signature,
     timestamp |-> Timestamp(sig.blockTime),
     blockTime |-> OrElse(sig.blockTime, 0),
     successful |-> (tx.meta # None /\ tx.meta[1].err = None),
     type |-> parseTransactionType(tx)]

\* TransactionRecord dating a signature without block time as the newest.
TransactionRecordMissingTimeNewest(sig, tx) ==
    [signature |-> sig.signature,
     timestamp |-> Timestamp(sig.blockTime),
     blockTime |-> OrElse(sig.blockTime, 1000),
     successful |-> (sig.err = None),
     type |-> parseTransactionType(tx)]

\* The record built for a signature whose body resolved (part_001:102-108).
TransactionRecord(sig, tx) ==
    [signature |-> sig.signature,
     timestamp |-> Timestamp(sig.blockTime),
     blockTime |-> OrElse(sig.blockTime, 0),
     successful |-> (sig.err = None),
     type |-> parseTransactionType(tx)]

\* CallbackResult with the null returns replaced by a placeholder record.
CallbackResultKeepsFailures(sig, response) ==
    IF response.kind = "body" /\ ~ParseThrows(response.tx)
    THEN Some(TransactionRecord(sig, response.tx))
    ELSE Some([signature |-> sig.signature,
               timestamp |-> Timestamp(sig.blockTime),
               blockTime |-> OrElse(sig.blockTime, 0),
               successful |-> FALSE,
               type |-> [description |-> "Unknown Transaction"]])

\* Result of the async map callback once its request has settled: a
\* rejected request and a throwing classifier are caught and give null, a
\* request that resolves to no transaction gives null.
CallbackResult(sig, response) ==
    IF response.kind = "body" /\ ~ParseThrows(response.tx)
    THEN Some(TransactionRecord(sig, response.tx))
    ELSE None

\* allTransactions.push(...batchTransactions.filter(Boolean))  (part_001:116)
PushBatchReplaces(allTransactions, batchTransactions) ==
    MapUnwrap(SelectSeq(batchTransactions, IsSome))
PushBatch(allTransactions, batchTransactions) ==
    allTransactions \o MapUnwrap(SelectSeq(batchTransactions, IsSome))

\* Comparator with the operands exchanged: oldest first.
ComparatorAscending(a, b) == a.blockTime - b.blockTime

\* The comparator of the final sort (part_001:127): negative when a is to
\* come before b.
Comparator(a, b) == b.blockTime - a.blockTime

\* Array.prototype.sort with that comparator: a stable sort, as insertion
\* of each element after the last element it does not precede.
RECURSIVE InsertSorted(_, _)
InsertSorted(sorted, x) ==
    IF sorted = <<>> THEN <<x>>
    ELSE IF Comparator(Head(sorted), x) <= 0
         THEN <<Head(sorted)>> \o InsertSorted(Tail(sorted), x)
         ELSE <<x>> \o sorted
RECURSIVE SortTrades(_)
SortTrades(s) ==
    IF s = <<>> THEN <<>>
    ELSE InsertSorted(SortTrades(SubSeq(s, 1, Len(s) - 1)), s[Len(s)])

(* ------------------------------ UserSidebar ---------------------------- *)

\* A JavaScript string of the sidebar is the sequence of its characters.
UpperCase == <<"A", "B", "C", "D", "E", "F", "G", "H", "I", "J", "K", "L", "M",
               "N", "O", "P", "Q", "R", "S", "T", "U", "V", "W", "X", "Y", "Z">>
LowerCase == <<"a", "b", "c", "d", "e", "f", "g", "h", "i", "j", "k", "l", "m",
               "n", "o", "p", "q", "r", "s", "t", "u", "v", "w", "x", "y", "z">>

\* The lower-case form of each capital letter.
LowerOf ==
    [c \in {UpperCase[k] : k \in 1..Len(UpperCase)} |->
        LowerCase[CHOOSE k \in 1..Len(UpperCase) : UpperCase[k] = c]]

\* String.prototype.toLowerCase
toLowerCase(str) ==
    [k \in 1..Len(str) |->
        IF str[k] \in DOMAIN LowerOf THEN LowerOf[str[k]] ELSE str[k]]

\* String.prototype.includes: needle occurs in str at some offset.
includes(str, needle) ==
    \E at \in 0..(Len(str) - Len(needle)) :
        \A k \in 1..Len(needle) : str[at + k] = needle[k]

\* ALL_METRICS, by id (UserSidebar.tsx:22-108).
ALL_METRICS ==
    <<"timeSpent", "engagement", "retention", "revenue", "arpu", "mrr",
      "customers", "growth", "conversion", "products", "satisfaction", "reviews">>

\* The metrics whose checkbox and Sort button are operated.
Metrics == {ALL_METRICS[k] : k \in 1..MaxMetrics}

\* selectedDimensions.includes(id)
IsSelected(selected, id) == \E k \in 1..Len(selected) : selected[k] = id

\* The predicate with the query compared as typed, not lower-cased.
MatchesQueryCaseSensitive(user, query) ==
    \/ includes(toLowerCase(user.username), query)
    \/ includes(toLowerCase(user.name), query)

\* The predicate of the filter on users (UserSidebar.tsx:178-181).
MatchesQuery(user, query) ==
    \/ includes(toLowerCase(user.username), toLowerCase(query))
    \/ includes(toLowerCase(user.name), toLowerCase(query))

\* Array.prototype.filter with that predicate: a new array.
RECURSIVE FilterUsers(_, _)
FilterUsers(us, query) ==
    IF us = <<>> THEN <<>>
    ELSE IF MatchesQuery(Head(us), query)
         THEN <<Head(us)>> \o FilterUsers(Tail(us), query)
         ELSE FilterUsers(Tail(us), query)

\* user.metrics[dimension] || 0: a missing value and 0 both give 0.
MetricOrZero(user, dimension) ==
    IF dimension \in DOMAIN user.metrics THEN user.metrics[dimension] ELSE 0

\* The comparator with the operands exchanged: ascending order.
CompareUsersAscending(a, b, dimension) ==
    MetricOrZero(a, dimension) - MetricOrZero(b, dimension)

\* (a, b) => (b.metrics[d] || 0) - (a.metrics[d] || 0)  (UserSidebar.tsx:182-184)
CompareUsers(a, b, dimension) ==
    MetricOrZero(b, dimension) - MetricOrZero(a, dimension)

\* Array.prototype.sort is stable: x goes after every element that does not
\* compare greater than it.
RECURSIVE InsertUser(_, _, _)
InsertUser(sorted, x, dimension) ==
    IF sorted = <<>> THEN <<x>>
    ELSE IF CompareUsers(Head(sorted), x, dimension) <= 0
         THEN <<Head(sorted)>> \o InsertUser(Tail(sorted), x, dimension)
         ELSE <<x>> \o sorted

RECURSIVE SortUsers(_, _)
SortUsers(us, dimension) ==
    IF us = <<>> THEN <<>>
    ELSE InsertUser(SortUsers(SubSeq(us, 1, Len(us) - 1), dimension),
                    us[Len(us)], dimension)

\* users.filter(...).sort(...)  (UserSidebar.tsx:177-184)
filteredAndSortedUsers(us, query, dimension) ==
    SortUsers(FilterUsers(us, query), dimension)

\* The rank taken from the user's place in the stored list.
WithRankGlobal(user, index) ==
    [id |-> user.id, username |-> user.username, name |-> user.name,
     metrics |-> user.metrics, rank |-> user.id + 1]

\* ({...user, rank: index + 1}) with the 0-based index of Array.prototype.map
WithRank(user, index) ==
    [id |-> user.id, username |-> user.username, name |-> user.name,
     metrics |-> user.metrics, rank |-> index + 1]

\* rankedUsers (UserSidebar.tsx:187-190)
rankedUsers(us, query, dimension) ==
    LET shown == filteredAndSortedUsers(us, query, dimension)
    IN  [k \in 1..Len(shown) |-> WithRank(shown[k], k - 1)]

\* The stored array if the sort were applied to users itself.
StoredAfterRenderSortsInPlace(us, query, dimension) == SortUsers(us, dimension)

\* The users array after a render: filter returns a new array, so the
\* in-place sort reorders the copy and users keeps its elements and order.
StoredAfterRender(us, query, dimension) == us

\* Display names and usernames.  generateDummyData builds the name as
\* "<adjective> <noun>" and the username as the lower-cased
\* "<adjective><noun><number>" (UserSidebar.tsx:135-141, 162-164).
CoolNinja ==
    [name |-> <<"C", "o", "o", "l", " ", "N", "i", "n", "j", "a">>,
     username |-> <<"c", "o", "o", "l", "n", "i", "n", "j", "a", "7">>]
ProDev ==
    [name |-> <<"P", "r", "o", " ", "D", "e", "v">>,
     username |-> <<"p", "r", "o", "d", "e", "v", "1", "2">>]
\* A username that kept its capitals, as the User type allows.
ProDevMixedCase ==
    [name |-> <<"P", "r", "o", " ", "D", "e", "v">>,
     username |-> <<"P", "r", "o", "D", "e", "v", "1", "2">>]

\* Metric values of a user.  generateDummyData stores a non-negative
\* integer under every id of ALL_METRICS (UserSidebar.tsx:143-159).
MetricIds == {ALL_METRICS[k] : k \in 1..Len(ALL_METRICS)}
AllFive == [m \in MetricIds |-> 5]
FiveThenNine == [m \in MetricIds |-> IF m = "timeSpent" THEN 5 ELSE 9]
\* 3 for timeSpent, 7 for engagement, 11 for retention, ...
Rising ==
    [m \in MetricIds |->
        4 * (CHOOSE k \in 1..Len(ALL_METRICS) : ALL_METRICS[k] = m) - 1]
\* The User type makes no promise that an id is present.
OnlyTimeSpentZero == [m \in {"timeSpent"} |-> 0]
OnlyEngagementFive == [m \in {"engagement"} |-> 5]

\* What a text box of the sidebar can hold.
QueryEmpty == <<>>
QueryCOOL == <<"C", "O", "O", "L">>
QueryNameOnly == <<"l", " ", "N">>
QueryUsernameOnly == <<"7">>
QueryDev == <<"d", "e", "v">>
QueryNoMatch == <<"z", "z">>
Queries == {QueryEmpty, QueryCOOL, QueryNameOnly, QueryUsernameOnly, QueryDev,
            QueryNoMatch}
QueriesTyped == {QueryEmpty, QueryCOOL}

\* User lists of 1..MaxUsers users; the id of a user is its 0-based place
\* in the list (id: i, UserSidebar.tsx:161).
UserLists(identities, metricMaps) ==
    UNION {{[k \in 1..n |-> [id |-> k - 1, username |-> f[k][1].username,
                             name |-> f[k][1].name, metrics |-> f[k][2]]] :
                f \in [1..n -> identities \X metricMaps]} : n \in 1..MaxUsers}

\* Lists generateDummyData can return (100 users in the source, scaled).
GeneratedUsers == UserLists({CoolNinja, ProDev}, {AllFive, Rising})
\* Lists of the User type, for the derived views as functions of any list.
TypedUsers ==
    UserLists({CoolNinja, ProDevMixedCase},
              {AllFive, FiveThenNine, OnlyTimeSpentZero, OnlyEngagementFive})

(* ------------------------- heuristic classifier ------------------------ *)

\* The log text of a transaction is the sequence of the tokens of its log
\* messages, in order: logMessages.join(' ') puts a space between messages
\* as there is between the tokens of one message (UserSidebar.tsx:768).
RECURSIVE Join(_)
Join(logMessages) ==
    IF logMessages = <<>> THEN <<>>
    ELSE Head(logMessages) \o Join(Tail(logMessages))

\* The keywords that occur in a token as substrings.  No keyword holds a
\* space, so an occurrence in the text lies within one token.
KeywordsIn(token) ==
    CASE token = "TransferChecked" -> {"Transfer"}
      [] token = "CreateAccount" -> {"Create"}
      [] token \in {"Swap", "Transfer", "Deposit", "Withdraw", "Stake",
                    "Create", "Close"} -> {token}
      [] OTHER -> {}

\* logs.includes(keyword)
LogsInclude(logs, keyword) ==
    \E k \in 1..Len(logs) : keyword \in KeywordsIn(logs[k])

\* Tokens made of digits with an optional fraction.
Amounts == {"1.5", "42"}

\* [...logs.matchAll(amountPattern)]: the <<amount, symbol>> pairs, left to
\* right, for a text in which every amount is followed by a word.
RECURSIVE MatchAll(_)
MatchAll(logs) ==
    IF Len(logs) < 2 THEN <<>>
    ELSE IF logs[1] \in Amounts
         THEN <<<<logs[1], logs[2]>>>> \o MatchAll(SubSeq(logs, 3, Len(logs)))
         ELSE MatchAll(Tail(logs))

\* The classifier with the Transfer test placed before the Swap test.
parseTransactionTypeTransferFirst(tx) ==
    IF tx.meta = None \/ tx.meta[1].logMessages = None
    THEN <<"Unknown Transaction">>
    ELSE
      LET logs == Join(tx.meta[1].logMessages[1])
          matches == MatchAll(logs)
      IN  IF LogsInclude(logs, "Transfer")
          THEN IF Len(matches) > 0
               THEN <<"Transferred", matches[1][1], matches[1][2]>>
               ELSE <<"Token Transfer">>
          ELSE IF LogsInclude(logs, "Swap")
          THEN IF Len(matches) >= 2
               THEN <<"Swapped", matches[1][1], matches[1][2], "for",
                      matches[2][1], matches[2][2]>>
               ELSE <<"Token Swap">>
          ELSE IF LogsInclude(logs, "Deposit") THEN <<"Deposit">>
          ELSE IF LogsInclude(logs, "Withdraw") THEN <<"Withdrawal">>
          ELSE IF LogsInclude(logs, "Stake") THEN <<"Staking">>
          ELSE IF LogsInclude(logs, "Create") THEN <<"Account Creation">>
          ELSE IF LogsInclude(logs, "Close") THEN <<"Account Closure">>
          ELSE <<"Transaction">>

\* The heuristic parseTransactionType (UserSidebar.tsx:764-800).  The
\* returned string is the sequence of its parts.
parseTransactionTypeHeuristic(tx) ==
    IF tx.meta = None \/ tx.meta[1].logMessages = None
    THEN <<"Unknown Transaction">>
    ELSE
      LET logs == Join(tx.meta[1].logMessages[1])
          matches == MatchAll(logs)
      IN  IF LogsInclude(logs, "Swap")
          THEN IF Len(matches) >= 2
               THEN <<"Swapped", matches[1][1], matches[1][2], "for",
                      matches[2][1], matches[2][2]>>
               ELSE <<"Token Swap">>
          ELSE IF LogsInclude(logs, "Transfer")
          THEN IF Len(matches) > 0
               THEN <<"Transferred", matches[1][1], matches[1][2]>>
               ELSE <<"Token Transfer">>
          ELSE IF LogsInclude(logs, "Deposit") THEN <<"Deposit">>
          ELSE IF LogsInclude(logs, "Withdraw") THEN <<"Withdrawal">>
          ELSE IF LogsInclude(logs, "Stake") THEN <<"Staking">>
          ELSE IF LogsInclude(logs, "Create") THEN <<"Account Creation">>
          ELSE IF LogsInclude(logs, "Close") THEN <<"Account Closure">>
          ELSE <<"Transaction">>

\* The outcome of a call of the structural parseTransactionType: the value
\* it returns, or the TypeError it throws (part_001:16-47).
Returned(value) == [threw |-> FALSE, value |-> value]
Threw == [threw |-> TRUE]
StructuralOutcome(tx) ==
    IF ParseThrows(tx) THEN Threw ELSE Returned(parseTransactionType(tx))

(* -------------------------- classifier inputs -------------------------- *)

\* Lamport balances of an account before and after a transaction; 40000
\* lamports are 0.00004 SOL, which toFixed(4) prints as 0.0000.
Lamports == {0, 40000, LAMPORTS_PER_SOL}

\* The pubkey of the account at an index.
PubkeyAt(index) == "acct" \o ToString(index)

\* The bodies whose account list has n entries: each key with or without a
\* pubkey, preBalances and postBalances absent or with n entries.
BodiesWithAccounts(n) ==
    {[meta |-> Some([err |-> None,
                     logMessages |-> Some(<<<<"Program", "invoke">>>>),
                     preBalances |-> pre,
                     postBalances |-> post,
                     innerInstructions |-> None]),
      message |-> Some([accountKeys |->
                            Some([k \in 1..n |-> IF k \in withPubkey
                                                  THEN Some(PubkeyAt(k)) ELSE None]),
                        instructions |-> <<"ix">>])] :
        withPubkey \in SUBSET (1..n),
        pre \in {None} \cup {Some(b) : b \in [1..n -> Lamports]},
        post \in {None} \cup {Some(b) : b \in [1..n -> Lamports]}}

\* Bodies without meta, without message, or without message.accountKeys.
BodiesMissingParts ==
    {[meta |-> None, message |-> BodyTransfer.message],
     [meta |-> BodyTransfer.meta, message |-> None],
     [meta |-> None, message |-> None],
     [meta |-> BodyTransfer.meta,
      message |-> Some([accountKeys |-> None, instructions |-> <<"ix">>])],
     [meta |-> Some([BodyTransfer.meta[1] EXCEPT !.logMessages = None]),
      message |-> BodyTransfer.message]}

StructuralBodies ==
    BodiesMissingParts \cup UNION {BodiesWithAccounts(n) : n \in 0..MaxAccounts}

\* Words of a log text, last-priority keyword first.
LogWords ==
    <<"Close", "CreateAccount", "Create", "Unstake", "Stake", "Withdraw",
      "Deposit", "TransferChecked", "Transfer", "Swap">>
\* The amounts of a log text, each followed by its token symbol.
LogAmounts == <<"1.5", "SOL", "42", "USDC", "1.5", "USDC", "42", "SOL">>

\* Bodies whose log messages are: one message with the first 0..MaxAmounts
\* amounts, one message with the words of a subset of LogWords.
HeuristicBodies ==
    {[meta |-> Some([BodyTransfer.meta[1] EXCEPT !.logMessages =
                        Some(<<SubSeq(LogAmounts, 1, 2 * amounts),
                               SelectSeq(LogWords, LAMBDA w : w \in words)>>)]),
      message |-> BodyTransfer.message] :
        amounts \in 0..MaxAmounts,
        words \in SUBSET {LogWords[k] : k \in 1..Len(LogWords)}}

Transactions == StructuralBodies \cup HeuristicBodies

(* -------------------------------- state -------------------------------- *)

VARIABLES
    addressInput,   \* useState(DEFAULT_WALLET)
    balance,        \* useState<number | null>(null), in SOL
    trades,         \* useState<any[]>([])
    loading,        \* useState(false)
    error,          \* useState('')
    mounted,        \* the mount effect has run
    inv             \* the fetchWalletData invocations: locals and position

\* State of the UserSidebar component (src/app/components/UserSidebar.tsx).
VARIABLES
    users,                  \* useState<User[]>([])
    searchQuery,            \* useState('')
    selectedDimensions,     \* useState<string[]>(['timeSpent'])
    activeSortDimension,    \* useState<string>('timeSpent')
    open                    \* useState(false): the metrics popover

\* One call of the transaction classifiers on a transaction body.
VARIABLES
    txBody,         \* the argument tx
    structural,     \* outcome of the structural parseTransactionType
    heuristic       \* outcome of the heuristic parseTransactionType

walletVars == <<addressInput, balance, trades, loading, error, mounted, inv>>
sidebarVars == <<users, searchQuery, selectedDimensions, activeSortDimension, open>>
parserVars == <<txBody, structural, heuristic>>
vars == <<walletVars, sidebarVars, parserVars>>

\* Invocations that can exist at the same time.
Slots == {1, 2}

\* Locals of an invocation that has not been called (or whose slot is free).
\*   pc             position: "idle", "getAccountInfo", "getSignatures",
\*                  "batch" (awaiting Promise.all), "delay", "done"
\*   exit           how it left: "none", "sorted", "empty", "catch"
\*   thrown         message of the error the catch block received
\*   address        addressInput as the call's closure sees it
\*   pubKey         the decoded address
\*   accountInfo    the resolved account, when there is one
\*   allSignatures, i, batchTransactions, allTransactions   as in the source
\*   accountCalls, signatureCalls, txCalls   requests issued so far
\*   responses      per signature: "unsent", "pending", "body", "absent",
\*                  "rejected"
\*   delays         pacing delays taken
\*   overlapped     it was called while another invocation was in flight
\*   stale          another invocation was called while it was in flight
IdleInv ==
    [pc |-> "idle", exit |-> "none", thrown |-> None, address |-> "",
     pubKey |-> None,
     accountInfo |-> None, allSignatures |-> <<>>, i |-> 0,
     batchTransactions |-> <<>>, allTransactions |-> <<>>,
     accountCalls |-> 0, signatureCalls |-> 0, txCalls |-> <<>>,
     responses |-> <<>>, delays |-> 0, overlapped |-> FALSE, stale |-> FALSE]

InFlight(s) == inv[s].pc \notin {"idle", "done"}
Free(s) == ~InFlight(s)
\* The slot a new call takes: the lowest free one.
NextSlot(s) == Free(s) /\ \A t \in Slots : t < s => InFlight(t)

\* The WalletTracker after construction (part_001:50-54).
InitWallet ==
    /\ addressInput = DEFAULT_WALLET
    /\ balance = None
    /\ trades = <<>>
    /\ loading = FALSE
    /\ error = ""
    /\ mounted = FALSE
    /\ inv = [s \in Slots |-> IdleInv]

\* The UserSidebar after construction (UserSidebar.tsx:125-129).
InitSidebar ==
    /\ users = <<>>
    /\ searchQuery = <<>>
    /\ selectedDimensions = <<"timeSpent">>
    /\ activeSortDimension = "timeSpent"
    /\ open = FALSE

\* A transaction body drawn from bodies, not yet classified.
InitParser(bodies) ==
    /\ txBody \in bodies
    /\ structural = None
    /\ heuristic = None

\* Both components after construction.
Init == InitWallet /\ InitSidebar /\ InitParser({BodyTransfer})

(* ---------------------------- fetchWalletData -------------------------- *)

\* Abort without setBalance(null).
AbortKeepsBalance(s, message, locals) ==
    /\ error' = message
    /\ balance' = balance
    /\ trades' = <<>>
    /\ loading' = FALSE
    /\ inv' = [inv EXCEPT ![s] = [locals EXCEPT !.pc = "done", !.exit = "catch",
                                                !.thrown = Some(message)]]

\* Abort without the finally block.
AbortLeavesLoading(s, message, locals) ==
    /\ error' = message
    /\ balance' = None
    /\ trades' = <<>>
    /\ loading' = loading
    /\ inv' = [inv EXCEPT ![s] = [locals EXCEPT !.pc = "done", !.exit = "catch",
                                                !.thrown = Some(message)]]

\* catch (err) { setError; setBalance(null); setTrades([]) } finally
\* { setLoading(false) }  (part_001:129-136)
Abort(s, message, locals) ==
    /\ error' = message
    /\ balance' = None
    /\ trades' = <<>>
    /\ loading' = FALSE
    /\ inv' = [inv EXCEPT ![s] = [locals EXCEPT !.pc = "done", !.exit = "catch",
                                                !.thrown = Some(message)]]

\* Other invocations learn nothing of a new call; the model marks them stale.
MarkStale(f, s) ==
    [t \in Slots |-> IF t # s /\ InFlight(t) THEN [f[t] EXCEPT !.stale = TRUE]
                     ELSE f[t]]

\* Begin with the address decoded only after getAccountInfo was requested.
BeginLooksUpFirst(s, address) ==
    LET fresh == [IdleInv EXCEPT !.address = address,
                                 !.overlapped = \E t \in Slots : t # s /\ InFlight(t)]
    IN  IF ~DecodesToPublicKey(address)
        THEN /\ error' = InvalidPublicKeyMessage
             /\ balance' = None
             /\ trades' = <<>>
             /\ loading' = FALSE
             /\ inv' = MarkStale([inv EXCEPT ![s] =
                            [fresh EXCEPT !.pc = "done", !.exit = "catch",
                                          !.accountCalls = 1,
                                          !.thrown = Some(InvalidPublicKeyMessage)]], s)
        ELSE /\ loading' = TRUE
             /\ error' = ""
             /\ trades' = <<>>
             /\ balance' = balance
             /\ inv' = MarkStale([inv EXCEPT ![s] =
                            [fresh EXCEPT !.pc = "getAccountInfo",
                                          !.pubKey = Some(address),
                                          !.accountCalls = 1]], s)

\* Begin without the setError('') of the start.
BeginKeepsError(s, address) ==
    LET fresh == [IdleInv EXCEPT !.address = address,
                                 !.overlapped = \E t \in Slots : t # s /\ InFlight(t)]
    IN  IF ~DecodesToPublicKey(address)
        THEN /\ error' = InvalidPublicKeyMessage
             /\ balance' = None
             /\ trades' = <<>>
             /\ loading' = FALSE
             /\ inv' = MarkStale([inv EXCEPT ![s] =
                            [fresh EXCEPT !.pc = "done", !.exit = "catch",
                                          !.thrown = Some(InvalidPublicKeyMessage)]], s)
        ELSE /\ loading' = TRUE
             /\ error' = error
             /\ trades' = <<>>
             /\ balance' = balance
             /\ inv' = MarkStale([inv EXCEPT ![s] =
                            [fresh EXCEPT !.pc = "getAccountInfo",
                                          !.pubKey = Some(address),
                                          !.accountCalls = 1]], s)

\* Begin resetting the balance together with error and trades.
BeginClearsBalance(s, address) ==
    LET fresh == [IdleInv EXCEPT !.address = address,
                                 !.overlapped = \E t \in Slots : t # s /\ InFlight(t)]
    IN  IF ~DecodesToPublicKey(address)
        THEN /\ error' = InvalidPublicKeyMessage
             /\ balance' = None
             /\ trades' = <<>>
             /\ loading' = FALSE
             /\ inv' = MarkStale([inv EXCEPT ![s] =
                            [fresh EXCEPT !.pc = "done", !.exit = "catch",
                                          !.thrown = Some(InvalidPublicKeyMessage)]], s)
        ELSE /\ loading' = TRUE
             /\ error' = ""
             /\ trades' = <<>>
             /\ balance' = None
             /\ inv' = MarkStale([inv EXCEPT ![s] =
                            [fresh EXCEPT !.pc = "getAccountInfo",
                                          !.pubKey = Some(address),
                                          !.accountCalls = 1]], s)

\* The call itself, up to the first await (part_001:62-71).
Begin(s, address) ==
    LET fresh == [IdleInv EXCEPT !.address = address,
                                 !.overlapped = \E t \in Slots : t # s /\ InFlight(t)]
    IN  IF ~DecodesToPublicKey(address)
        THEN /\ error' = InvalidPublicKeyMessage
             /\ balance' = None
             /\ trades' = <<>>
             /\ loading' = FALSE
             /\ inv' = MarkStale([inv EXCEPT ![s] =
                            [fresh EXCEPT !.pc = "done", !.exit = "catch",
                                          !.thrown = Some(InvalidPublicKeyMessage)]], s)
        ELSE /\ loading' = TRUE
             /\ error' = ""
             /\ trades' = <<>>
             /\ balance' = balance
             /\ inv' = MarkStale([inv EXCEPT ![s] =
                            [fresh EXCEPT !.pc = "getAccountInfo",
                                          !.pubKey = Some(address),
                                          !.accountCalls = 1]], s)

\* useEffect(() => { fetchWalletData() }, [])  (part_001:57-59)
Mount ==
    /\ ~mounted
    /\ mounted' = TRUE
    /\ \E s \in Slots : NextSlot(s) /\ Begin(s, addressInput)
    /\ UNCHANGED <<addressInput, sidebarVars, parserVars>>

\* onChange of the address box (part_001:145)
SetAddressInput(a) ==
    /\ mounted
    /\ addressInput' = a
    /\ UNCHANGED <<balance, trades, loading, error, mounted, inv,
                 sidebarVars, parserVars>>

\* The disabled attribute without the loading flag.
SubmitDisabledIgnoresLoading == addressInput = ""

\* disabled={loading || !addressInput}  (part_001:151)
SubmitDisabled == loading \/ addressInput = ""

\* onClick of the submit button (part_001:149-152)
Click ==
    /\ mounted
    /\ ~SubmitDisabled
    /\ \E s \in Slots : NextSlot(s) /\ Begin(s, addressInput)
    /\ UNCHANGED <<addressInput, mounted, sidebarVars, parserVars>>

\* A call of fetchWalletData that does not go through the button's disabled
\* attribute: the function itself has no guard.
Invoke ==
    /\ mounted
    /\ \E t \in Slots : InFlight(t)
    /\ \E s \in Slots : NextSlot(s) /\ Begin(s, addressInput)
    /\ UNCHANGED <<addressInput, mounted, sidebarVars, parserVars>>

\* StartBatch without the slice: every remaining signature is requested.
StartBatchAll(locals, i) ==
    LET n == Len(locals.allSignatures)
    IN  [locals EXCEPT
            !.pc = "batch",
            !.i = i,
            !.batchTransactions = [j \in 1..(n - i) |-> None],
            !.txCalls = [k \in 1..n |-> IF k > i THEN @[k] + 1 ELSE @[k]],
            !.responses = [k \in 1..n |-> IF k > i THEN "pending" ELSE @[k]]]

\* StartBatch with a slice one signature longer than the batch size.
StartBatchOneMore(locals, i) ==
    LET n == Len(locals.allSignatures)
        batch == Slice(locals.allSignatures, i, i + batchSize + 1)
    IN  [locals EXCEPT
            !.pc = "batch",
            !.i = i,
            !.batchTransactions = [j \in 1..Len(batch) |-> None],
            !.txCalls = [k \in 1..n |->
                IF i < k /\ k <= i + batchSize + 1 THEN @[k] + 1 ELSE @[k]],
            !.responses = [k \in 1..n |->
                IF i < k /\ k <= i + batchSize + 1 THEN "pending" ELSE @[k]]]

\* Issue the requests of the batch starting at offset i (part_001:91-98):
\* every callback runs up to its await before Promise.all is awaited.
BatchIndices(n, i) == {k \in 1..n : i < k /\ k <= i + batchSize}
StartBatch(locals, i) ==
    LET n == Len(locals.allSignatures)
        batch == Slice(locals.allSignatures, i, i + batchSize)
    IN  [locals EXCEPT
            !.pc = "batch",
            !.i = i,
            !.batchTransactions = [j \in 1..Len(batch) |-> None],
            !.txCalls = [k \in 1..n |->
                IF k \in BatchIndices(n, i) THEN @[k] + 1 ELSE @[k]],
            !.responses = [k \in 1..n |->
                IF k \in BatchIndices(n, i) THEN "pending" ELSE @[k]]]

\* AccountInfoResolves treating a missing account as a failure.
AccountInfoResolvesAbsentThrows(s, accountInfo) ==
    /\ inv[s].pc = "getAccountInfo"
    /\ IF accountInfo # None
       THEN /\ balance' = Some(accountInfo[1].lamports \div LAMPORTS_PER_SOL)
            /\ inv' = [inv EXCEPT ![s] = [@ EXCEPT !.pc = "getSignatures",
                                                    !.accountInfo = accountInfo,
                                                    !.signatureCalls = @ + 1]]
            /\ UNCHANGED <<trades, loading, error>>
       ELSE Abort(s, "Account not found", inv[s])
    /\ UNCHANGED <<addressInput, mounted, sidebarVars, parserVars>>

\* await connection.getAccountInfo(pubKey) resolves (part_001:71-82)
AccountInfoResolves(s, accountInfo) ==
    /\ inv[s].pc = "getAccountInfo"
    /\ balance' = IF accountInfo # None
                  THEN Some(accountInfo[1].lamports \div LAMPORTS_PER_SOL)
                  ELSE Some(0)
    /\ inv' = [inv EXCEPT ![s] = [@ EXCEPT !.pc = "getSignatures",
                                            !.accountInfo = accountInfo,
                                            !.signatureCalls = @ + 1]]
    /\ UNCHANGED <<addressInput, trades, loading, error, mounted,
                 sidebarVars, parserVars>>

\* await connection.getAccountInfo(pubKey) rejects
AccountInfoRejects(s, message) ==
    /\ inv[s].pc = "getAccountInfo"
    /\ Abort(s, message, inv[s])
    /\ UNCHANGED <<addressInput, mounted, sidebarVars, parserVars>>

\* SignaturesResolve with an empty history treated as a failure.
SignaturesResolveEmptyThrows(s, sigs) ==
    /\ inv[s].pc = "getSignatures"
    /\ LET locals == [inv[s] EXCEPT
                        !.allSignatures = sigs,
                        !.txCalls = [k \in 1..Len(sigs) |-> 0],
                        !.responses = [k \in 1..Len(sigs) |-> "unsent"]]
       IN  IF Len(sigs) = 0
           THEN Abort(s, "No transactions found", locals)
           ELSE /\ inv' = [inv EXCEPT ![s] = StartBatch(locals, 0)]
                /\ UNCHANGED <<balance, trades, error, loading>>
    /\ UNCHANGED <<addressInput, mounted, sidebarVars, parserVars>>

\* await connection.getConfirmedSignaturesForAddress2 resolves (part_001:79-98)
SignaturesResolve(s, sigs) ==
    /\ inv[s].pc = "getSignatures"
    /\ LET locals == [inv[s] EXCEPT
                        !.allSignatures = sigs,
                        !.txCalls = [k \in 1..Len(sigs) |-> 0],
                        !.responses = [k \in 1..Len(sigs) |-> "unsent"]]
       IN  IF Len(sigs) = 0
           THEN /\ loading' = FALSE
                /\ inv' = [inv EXCEPT ![s] = [locals EXCEPT !.pc = "done",
                                                            !.exit = "empty"]]
                /\ UNCHANGED <<balance, trades, error>>
           ELSE /\ inv' = [inv EXCEPT ![s] = StartBatch(locals, 0)]
                /\ UNCHANGED <<balance, trades, error, loading>>
    /\ UNCHANGED <<addressInput, mounted, sidebarVars, parserVars>>

\* await connection.getConfirmedSignaturesForAddress2 rejects
SignaturesReject(s, message) ==
    /\ inv[s].pc = "getSignatures"
    /\ Abort(s, message, inv[s])
    /\ UNCHANGED <<addressInput, mounted, sidebarVars, parserVars>>

\* TransactionSettles collecting the results in the order of completion.
TransactionSettlesInCompletionOrder(s, k, response) ==
    /\ inv[s].pc = "batch"
    /\ k \in 1..Len(inv[s].responses)
    /\ inv[s].responses[k] = "pending"
    /\ LET settled == {j \in 1..Len(inv[s].responses) :
                          j > inv[s].i /\ inv[s].responses[j] \notin {"pending", "unsent"}}
       IN  inv' = [inv EXCEPT ![s] = [@ EXCEPT
                !.responses[k] = response.kind,
                !.batchTransactions[Cardinality(settled) + 1] =
                    CallbackResult(inv[s].allSignatures[k], response)]]
    /\ UNCHANGED <<addressInput, balance, trades, loading, error, mounted,
                 sidebarVars, parserVars>>

\* TransactionSettles with one more attempt after a rejected request.
TransactionSettlesRetries(s, k, response) ==
    /\ inv[s].pc = "batch"
    /\ k \in 1..Len(inv[s].responses)
    /\ inv[s].responses[k] = "pending"
    /\ IF response.kind = "rejected" /\ inv[s].txCalls[k] = 1
       THEN inv' = [inv EXCEPT ![s] = [@ EXCEPT !.txCalls[k] = 2]]
       ELSE inv' = [inv EXCEPT ![s] = [@ EXCEPT
                !.responses[k] = response.kind,
                !.batchTransactions[k - inv[s].i] =
                    CallbackResult(inv[s].allSignatures[k], response)]]
    /\ UNCHANGED <<addressInput, balance, trades, loading, error, mounted,
                 sidebarVars, parserVars>>

\* One getParsedTransaction request settles and its callback finishes
\* (part_001:93-113).
TransactionSettles(s, k, response) ==
    /\ inv[s].pc = "batch"
    /\ k \in 1..Len(inv[s].responses)
    /\ inv[s].responses[k] = "pending"
    /\ inv' = [inv EXCEPT ![s] = [@ EXCEPT
            !.responses[k] = response.kind,
            !.batchTransactions[k - inv[s].i] =
                CallbackResult(inv[s].allSignatures[k], response)]]
    /\ UNCHANGED <<addressInput, balance, trades, loading, error, mounted,
                 sidebarVars, parserVars>>

\* BatchCompletes with a generation check: a stale invocation writes no trades.
BatchCompletesUnlessStale(s) ==
    /\ inv[s].pc = "batch"
    /\ \A k \in 1..Len(inv[s].responses) : inv[s].responses[k] # "pending"
    /\ LET n == Len(inv[s].allSignatures)
           i == inv[s].i
           all == PushBatch(inv[s].allTransactions, inv[s].batchTransactions)
       IN  IF i + batchSize < n
           THEN /\ inv' = [inv EXCEPT ![s] = [@ EXCEPT !.pc = "delay",
                                                       !.allTransactions = all,
                                                       !.delays = @ + 1]]
                /\ UNCHANGED <<trades, loading>>
           ELSE /\ trades' = IF inv[s].stale THEN trades ELSE SortTrades(all)
                /\ loading' = FALSE
                /\ inv' = [inv EXCEPT ![s] = [@ EXCEPT !.pc = "done",
                                                       !.exit = "sorted",
                                                       !.i = i + batchSize,
                                                       !.allTransactions = all]]
    /\ UNCHANGED <<addressInput, balance, error, mounted,
                 sidebarVars, parserVars>>

\* BatchCompletes without the pause: the next round begins at once.
BatchCompletesNoDelay(s) ==
    /\ inv[s].pc = "batch"
    /\ \A k \in 1..Len(inv[s].responses) : inv[s].responses[k] # "pending"
    /\ LET n == Len(inv[s].allSignatures)
           i == inv[s].i
           all == PushBatch(inv[s].allTransactions, inv[s].batchTransactions)
       IN  IF i + batchSize < n
           THEN /\ inv' = [inv EXCEPT ![s] =
                        StartBatch([@ EXCEPT !.allTransactions = all], i + batchSize)]
                /\ UNCHANGED <<trades, loading>>
           ELSE /\ trades' = SortTrades(all)
                /\ loading' = FALSE
                /\ inv' = [inv EXCEPT ![s] = [@ EXCEPT !.pc = "done",
                                                       !.exit = "sorted",
                                                       !.i = i + batchSize,
                                                       !.allTransactions = all]]
    /\ UNCHANGED <<addressInput, balance, error, mounted,
                 sidebarVars, parserVars>>

\* Promise.all resolves: the rest of the loop body, and the code after the
\* loop when this was the last batch (part_001:116-128, 134-136).
BatchCompletes(s) ==
    /\ inv[s].pc = "batch"
    /\ \A k \in 1..Len(inv[s].responses) : inv[s].responses[k] # "pending"
    /\ LET n == Len(inv[s].allSignatures)
           i == inv[s].i
           all == PushBatch(inv[s].allTransactions, inv[s].batchTransactions)
       IN  IF i + batchSize < n
           THEN /\ inv' = [inv EXCEPT ![s] = [@ EXCEPT !.pc = "delay",
                                                       !.allTransactions = all,
                                                       !.delays = @ + 1]]
                /\ UNCHANGED <<trades, loading>>
           ELSE /\ trades' = SortTrades(all)
                /\ loading' = FALSE
                /\ inv' = [inv EXCEPT ![s] = [@ EXCEPT !.pc = "done",
                                                       !.exit = "sorted",
                                                       !.i = i + batchSize,
                                                       !.allTransactions = all]]
    /\ UNCHANGED <<addressInput, balance, error, mounted,
                 sidebarVars, parserVars>>

\* The setTimeout of the pacing delay fires: i += batchSize and the next
\* round begins (part_001:90-98, 120).
DelayElapses(s) ==
    /\ inv[s].pc = "delay"
    /\ inv' = [inv EXCEPT ![s] = StartBatch(inv[s], inv[s].i + batchSize)]
    /\ UNCHANGED <<addressInput, balance, trades, loading, error, mounted,
                 sidebarVars, parserVars>>

\* The mount effect has stored the generated users (never an empty list).
SidebarMounted == users # <<>>

\* Every state change is followed by a render, which computes the derived
\* views from users; this is what the render leaves in users.
Rendered(us, query, dimension) ==
    users' = StoredAfterRender(us, query, dimension)

\* useEffect(() => { setUsers(generateDummyData()) }, [])  (UserSidebar.tsx:132-173)
SidebarMount(generated) ==
    /\ ~SidebarMounted
    /\ Rendered(generated, searchQuery, activeSortDimension)
    /\ UNCHANGED <<searchQuery, selectedDimensions, activeSortDimension, open>>
    /\ UNCHANGED <<walletVars, parserVars>>

\* onChange of the search box (UserSidebar.tsx:317)
SetSearchQuery(query) ==
    /\ SidebarMounted
    /\ searchQuery' = query
    /\ Rendered(users, query, activeSortDimension)
    /\ UNCHANGED <<selectedDimensions, activeSortDimension, open>>
    /\ UNCHANGED <<walletVars, parserVars>>

\* onOpenChange={setOpen} of the metrics popover (UserSidebar.tsx:214)
SetOpen(value) ==
    /\ SidebarMounted
    /\ open' = value
    /\ Rendered(users, searchQuery, activeSortDimension)
    /\ UNCHANGED <<searchQuery, selectedDimensions, activeSortDimension>>
    /\ UNCHANGED <<walletVars, parserVars>>

\* The handler removing every unchecked metric, the sort metric included.
onCheckedChangeUnguarded(selected, id, active, checked) ==
    IF checked
    THEN Append(selected, id)
    ELSE SelectSeq(selected, LAMBDA d : d # id)

\* onCheckedChange of a metric's checkbox: the next selectedDimensions
\* (UserSidebar.tsx:266-272)
onCheckedChange(selected, id, active, checked) ==
    IF checked
    THEN Append(selected, id)
    ELSE IF id # active
         THEN SelectSeq(selected, LAMBDA d : d # id)
         ELSE selected

\* disabled={isSorting && selectedDimensions.length === 1}  (UserSidebar.tsx:273)
CheckboxDisabled(id) == activeSortDimension = id /\ Len(selectedDimensions) = 1

\* The user toggles the checkbox of a metric in the open popover: the
\* checkbox reports the opposite of checked={isSelected}.
CheckedChange(id) ==
    /\ SidebarMounted
    /\ open
    /\ ~CheckboxDisabled(id)
    /\ selectedDimensions' =
          onCheckedChange(selectedDimensions, id, activeSortDimension,
                          ~IsSelected(selectedDimensions, id))
    /\ Rendered(users, searchQuery, activeSortDimension)
    /\ UNCHANGED <<searchQuery, activeSortDimension, open>>
    /\ UNCHANGED <<walletVars, parserVars>>

\* The Sort button offered on every metric.
SortDisabledNever(id) == FALSE

\* disabled={!isSelected} of the Sort button (UserSidebar.tsx:291)
SortDisabled(id) == ~IsSelected(selectedDimensions, id)

\* onClick of a metric's Sort button (UserSidebar.tsx:280-283)
SortClick(id) ==
    /\ SidebarMounted
    /\ open
    /\ ~SortDisabled(id)
    /\ activeSortDimension' = id
    /\ open' = FALSE
    /\ Rendered(users, searchQuery, id)
    /\ UNCHANGED <<searchQuery, selectedDimensions>>
    /\ UNCHANGED <<walletVars, parserVars>>

(* ----------------------------- classifiers ----------------------------- *)

\* A call of the structural parseTransactionType on txBody.
ParseStructural ==
    /\ structural = None
    /\ structural' = Some(StructuralOutcome(txBody))
    /\ UNCHANGED <<txBody, heuristic, walletVars, sidebarVars>>

\* A call of the heuristic parseTransactionType on txBody.
ParseHeuristic ==
    /\ heuristic = None
    /\ heuristic' = Some(parseTransactionTypeHeuristic(txBody))
    /\ UNCHANGED <<txBody, structural, walletVars, sidebarVars>>

(* ---------------------------- specifications --------------------------- *)

\* Signature histories of at most maxLen records; the signature of the
\* k-th record is k.
SigLists(maxLen, kinds) ==
    UNION {{[k \in 1..n |-> [signature |-> k, blockTime |-> f[k][1], err |-> f[k][2]]] :
                f \in [1..n -> kinds]} : n \in 0..maxLen}
SigHistories == SigLists(MaxSigs, SigKinds)
SigHistoriesOverlap == SigLists(MaxSigsOverlap, SigKindsReduced)
SigHistoriesLive == SigLists(MaxSigs, SigKindsReduced)

\* What a getParsedTransaction request can settle with.
Responses(bodies) ==
    {[kind |-> "body", tx |-> tx] : tx \in bodies}
        \cup {[kind |-> "absent"], [kind |-> "rejected"]}
TxResponses == Responses(TxBodies)
TxResponsesReduced == {[kind |-> "body", tx |-> BodyTransfer], [kind |-> "rejected"]}

AccountInfos == {None} \cup {Some([lamports |-> l]) : l \in AccountLamports}

\* An awaited promise of invocation s settles and the invocation resumes.
Settle(s, sigLists, responses) ==
    \/ /\ inv[s].pc = "getAccountInfo"
       /\ \/ \E accountInfo \in AccountInfos : AccountInfoResolves(s, accountInfo)
          \/ \E message \in AccountInfoErrors : AccountInfoRejects(s, message)
    \/ /\ inv[s].pc = "getSignatures"
       /\ \/ \E sigs \in sigLists : SignaturesResolve(s, sigs)
          \/ \E message \in SignaturesErrors : SignaturesReject(s, message)
    \/ /\ inv[s].pc = "batch"
       /\ \/ \E k \in 1..Len(inv[s].responses), response \in responses :
                 TransactionSettles(s, k, response)
          \/ BatchCompletes(s)

\* The intended flow: fetches are triggered by the mount effect and by the
\* submit button only.
Next ==
    \/ Mount
    \/ \E a \in Addresses : SetAddressInput(a)
    \/ Click
    \/ \E s \in Slots : Settle(s, SigHistories, TxResponses)
    \/ \E s \in Slots : DelayElapses(s)

Spec == Init /\ [][Next]_vars

\* The intended flow when every awaited promise eventually settles and the
\* pacing timer eventually fires.
Resumes ==
    \/ \E s \in Slots : Settle(s, SigHistoriesLive, TxResponsesReduced)
    \/ \E s \in Slots : DelayElapses(s)

NextLive ==
    \/ Mount
    \/ \E a \in Addresses : SetAddressInput(a)
    \/ Click
    \/ Resumes

SpecLive == Init /\ [][NextLive]_vars /\ WF_vars(Resumes)

\* The flow in which fetchWalletData is also called while a fetch is in
\* flight.  Its signature histories fit one round (MaxSigsOverlap is at
\* most batchSize), so no pacing delay is taken in it.
NextOverlap ==
    \/ Mount
    \/ \E a \in Addresses : SetAddressInput(a)
    \/ Click
    \/ Invoke
    \/ \E s \in Slots : Settle(s, SigHistoriesOverlap, TxResponsesReduced)

SpecOverlap == Init /\ [][NextOverlap]_vars

\* One fetch alone: the fetch of the mount effect, from the call to its
\* end, with every signature history and every response of the full flow.
NextFetch ==
    \/ Mount
    \/ \E s \in Slots : Settle(s, SigHistories, TxResponses)
    \/ \E s \in Slots : DelayElapses(s)

SpecFetch == Init /\ [][NextFetch]_vars

\* The UserSidebar: the mount effect, the search box and the metrics popover.
NextSidebar ==
    \/ \E generated \in GeneratedUsers : SidebarMount(generated)
    \/ \E query \in QueriesTyped : SetSearchQuery(query)
    \/ \E value \in BOOLEAN : SetOpen(value)
    \/ \E id \in Metrics : CheckedChange(id)
    \/ \E id \in Metrics : SortClick(id)

SpecSidebar == Init /\ [][NextSidebar]_vars

\* The derived views as functions of users, searchQuery and
\* activeSortDimension: a mounted sidebar holding any list of the User type
\* and sorting by any metric, with the search box operated.
InitRanking ==
    /\ InitWallet
    /\ InitParser({BodyTransfer})
    /\ users \in TypedUsers
    /\ searchQuery = <<>>
    /\ \E dimension \in Metrics : /\ selectedDimensions = <<dimension>>
                                  /\ activeSortDimension = dimension
    /\ open = FALSE

NextRanking == \E query \in Queries : SetSearchQuery(query)

SpecRanking == InitRanking /\ [][NextRanking]_vars

\* The classifiers as functions of the transaction body.
InitParse == InitWallet /\ InitSidebar /\ InitParser(Transactions)

NextParse == ParseStructural \/ ParseHeuristic

SpecParse == InitParse /\ [][NextParse]_vars

(* ------------------------------ properties ----------------------------- *)

Done(s) == inv[s].pc = "done"
Settled(l, k) == l.responses[k] \in {"body", "absent", "rejected"}
Resolved(l) == {k \in 1..Len(l.responses) : l.responses[k] = "body"}
\* Positions of trades holding the record of signature k.
RecordsOf(k) == {p \in 1..Len(trades) : trades[p].signature = k}
\* 0-based round of the k-th signature.
Round(k) == (k - 1) \div batchSize

\* C1: an invocation called with an address that does not decode issues no
\* RPC request of any kind and ends with error set to the decode failure's
\* message.
C1_InvalidAddressNoRpc ==
    \A s \in Slots :
        (Done(s) /\ ~DecodesToPublicKey(inv[s].address)) =>
            /\ inv[s].accountCalls = 0
            /\ inv[s].signatureCalls = 0
            /\ inv[s].txCalls = <<>>
            /\ inv[s].responses = <<>>
            /\ inv[s].exit = "catch"
            /\ error = InvalidPublicKeyMessage

C1_Witness ==
    \E s \in Slots :
        /\ Done(s)
        /\ inv[s].address = "short"
        /\ error = InvalidPublicKeyMessage
        /\ inv[s].accountCalls = 0

\* C2: once an invocation has aborted (decode failure, account-lookup
\* failure, signature-list failure) balance is null, trades is empty and
\* error is the raw message of the failure, also when the invocation had
\* set the balance before it failed.
C2_AbortClears ==
    \A s \in Slots :
        (Done(s) /\ inv[s].exit = "catch") =>
            /\ balance = None
            /\ trades = <<>>
            /\ inv[s].thrown # None
            /\ error = inv[s].thrown[1]

\* The signature lookup failed after this invocation had set the balance.
C2_Witness ==
    \E s \in Slots :
        /\ Done(s)
        /\ inv[s].exit = "catch"
        /\ inv[s].signatureCalls = 1
        /\ inv[s].accountInfo # None
        /\ error \in SignaturesErrors
        /\ balance = None

\* C3: transaction-body requests that reject or resolve to no transaction
\* never abort the fetch: it ends with error = '' and a balance, the
\* signatures whose request failed have no record in trades and every
\* signature whose body resolved has exactly one.
C3_FailedBodiesAreDropped ==
    \A s \in Slots :
        (Done(s) /\ inv[s].allSignatures # <<>>) =>
            /\ inv[s].exit = "sorted"
            /\ error = ""
            /\ balance # None
            /\ \A k \in 1..Len(inv[s].allSignatures) :
                   /\ Settled(inv[s], k)
                   /\ inv[s].responses[k] = "body" => Cardinality(RecordsOf(k)) = 1
                   /\ inv[s].responses[k] # "body" => RecordsOf(k) = {}

\* A fetch ended with one request rejected, one resolved to no transaction
\* and one resolved to a body.
C3_Witness ==
    \E s \in Slots :
        /\ Done(s)
        /\ \E k \in 1..Len(inv[s].responses) : inv[s].responses[k] = "rejected"
        /\ \E k \in 1..Len(inv[s].responses) : inv[s].responses[k] = "absent"
        /\ \E k \in 1..Len(inv[s].responses) : inv[s].responses[k] = "body"
        /\ Len(trades) = 1
        /\ error = ""

\* C4: the signatures are requested in consecutive groups of batchSize in
\* their original order, and no request of a round is issued before every
\* request of the rounds before it has settled.
C4_RoundsSequential ==
    \A s \in Slots :
        LET l == inv[s]
            n == Len(l.responses)
        IN  \A k \in 1..n :
                l.responses[k] # "unsent" =>
                    \A j \in 1..n :
                        /\ Round(j) < Round(k) => Settled(l, j)
                        /\ Round(j) = Round(k) => l.responses[j] # "unsent"
                        /\ j < k => l.responses[j] # "unsent"

\* A request of the second round is in flight.
C4_Witness ==
    \E s \in Slots :
        \E k \in 1..Len(inv[s].responses) :
            /\ Round(k) = 1
            /\ inv[s].responses[k] = "pending"
            /\ inv[s].delays = 1

\* C5: after a fetch that succeeds, trades has at most as many records as
\* signatures were returned, and exactly as many as bodies resolved.
C5_TradesCount ==
    \A s \in Slots :
        (Done(s) /\ inv[s].exit \in {"sorted", "empty"}) =>
            /\ Len(trades) <= Len(inv[s].allSignatures)
            /\ Len(trades) = Cardinality(Resolved(inv[s]))

\* Bodies resolved in both rounds and one request failed.
C5_Witness ==
    \E s \in Slots :
        /\ Done(s)
        /\ inv[s].exit = "sorted"
        /\ Len(inv[s].allSignatures) = batchSize + 1
        /\ inv[s].responses[1] = "body"
        /\ inv[s].responses[batchSize + 1] = "body"
        /\ Len(trades) = batchSize
        /\ Len(trades) < Len(inv[s].allSignatures)

\* C6: after a fetch that succeeds, trades is ordered by blockTime
\* descending, and records with equal blockTime keep the order their
\* signatures had in the signature list.
C6_NewestFirstStable ==
    \A s \in Slots :
        (Done(s) /\ inv[s].exit = "sorted") =>
            \A p, q \in 1..Len(trades) :
                p < q =>
                    /\ trades[p].blockTime >= trades[q].blockTime
                    /\ trades[p].blockTime = trades[q].blockTime =>
                           trades[p].signature < trades[q].signature

\* Three records: the two newest tie and keep their order, the oldest was
\* first in the signature list.
C6_Witness ==
    \E s \in Slots :
        /\ Done(s)
        /\ inv[s].exit = "sorted"
        /\ Len(trades) = 3
        /\ trades[1].signature = 2 /\ trades[1].blockTime = 2
        /\ trades[2].signature = 3 /\ trades[2].blockTime = 2
        /\ trades[3].signature = 1 /\ trades[3].blockTime < 2

\* C7: for a valid address with no signatures the fetch ends without error:
\* balance is the looked-up balance (0 for an absent account), trades is
\* empty, error is '', loading is false and no transaction body was
\* requested.
C7_EmptyHistoryIsNoError ==
    \A s \in Slots :
        (Done(s) /\ DecodesToPublicKey(inv[s].address) /\ inv[s].signatureCalls = 1
            /\ inv[s].thrown \notin {Some(m) : m \in SignaturesErrors}
            /\ inv[s].allSignatures = <<>>) =>
            /\ inv[s].exit = "empty"
            /\ balance # None
            /\ inv[s].accountInfo = None => balance[1] = 0
            /\ inv[s].accountInfo # None =>
                   balance[1] * LAMPORTS_PER_SOL = inv[s].accountInfo[1].lamports
            /\ trades = <<>>
            /\ error = ""
            /\ loading = FALSE
            /\ inv[s].txCalls = <<>>

C7_Witness ==
    \E s \in Slots :
        /\ Done(s)
        /\ inv[s].exit = "empty"
        /\ balance = Some(2)
        /\ trades = <<>>
        /\ error = ""
        /\ ~loading

\* C10: in the flow triggered by the mount effect and the submit button, at
\* most one invocation is in flight at any time, and while one is in flight
\* loading is true and the submit button is disabled.
C10_SingleWriter ==
    /\ Cardinality({s \in Slots : InFlight(s)}) <= 1
    /\ \A s \in Slots : InFlight(s) => (loading /\ SubmitDisabled /\ ~ENABLED Click)

\* A fetch started by the button is in flight.
C10_Witness ==
    \E s \in Slots :
        /\ InFlight(s)
        /\ inv[s].pc = "batch"
        /\ addressInput = "short"
        /\ loading

\* No invocation is in flight.
Idle == \A s \in Slots : ~InFlight(s)

\* C8: when every awaited promise eventually settles, every invocation
\* eventually finishes; whenever none is in flight loading is false, on
\* every path, and the submit action is available for any non-empty
\* address.
C8_EveryFetchFinishes ==
    /\ \A s \in Slots : InFlight(s) ~> Done(s)
    /\ []((mounted /\ Idle) => ~loading)
    /\ []((mounted /\ Idle /\ addressInput # "") => ENABLED Click)

\* A fetch ended in the catch block after the account lookup failed and the
\* button is available again.
C8_Witness ==
    \E s \in Slots :
        /\ Done(s)
        /\ inv[s].exit = "catch"
        /\ error \in AccountInfoErrors
        /\ ~loading
        /\ ENABLED Click

\* The step finishes invocation s.
Finishes(s) == inv'[s].pc = "done" /\ inv'[s] # inv[s]
\* What invocation s itself wrote to trades and to balance.
WrittenTrades(l) ==
    IF l.exit = "sorted" THEN SortTrades(l.allTransactions) ELSE <<>>
WrittenBalance(l) ==
    IF l.exit = "catch" THEN None
    ELSE IF l.accountInfo = None THEN Some(0)
         ELSE Some(l.accountInfo[1].lamports \div LAMPORTS_PER_SOL)
\* inv[t] up to the stale mark.
Unmarked(l) == [l EXCEPT !.stale = FALSE]

\* C9 as stated: when an invocation that overlapped another one finishes
\* and none is left in flight, the visible balance and trades are the ones
\* that invocation wrote.
C9_LastFinisherWins ==
    [][\A s \in Slots :
          (/\ Finishes(s)
           /\ inv'[s].stale \/ inv'[s].overlapped
           /\ \A t \in Slots : inv'[t].pc \in {"idle", "done"}) =>
              /\ trades' = WrittenTrades(inv'[s])
              /\ balance' = WrittenBalance(inv'[s])]_vars

\* C9 (amended): a new call leaves the invocations in flight untouched, and
\* every write is applied whoever made it: an invocation that finishes
\* through the sort sets trades to its own list and leaves balance as it
\* is, one that finishes in the catch block sets balance to null and trades
\* to empty, one that returns on an empty history writes neither.
C9_LastWriteWins ==
    [][\A s \in Slots :
          /\ Finishes(s) =>
                /\ inv'[s].exit = "sorted" =>
                       (trades' = SortTrades(inv'[s].allTransactions)
                            /\ balance' = balance)
                /\ inv'[s].exit = "catch" => (trades' = <<>> /\ balance' = None)
                /\ inv'[s].exit = "empty" => (trades' = trades /\ balance' = balance)
          /\ inv'[s].pc # inv[s].pc =>
                \A t \in Slots \ {s} : Unmarked(inv'[t]) = Unmarked(inv[t])]_vars

\* Both invocations have finished through the sort; the visible trades are
\* those of the stale one, the visible balance is the other one's.
C9_Witness ==
    \E s, t \in Slots :
        /\ Done(s) /\ inv[s].exit = "sorted" /\ inv[s].stale
        /\ Done(t) /\ inv[t].exit = "sorted" /\ inv[t].overlapped
        /\ WrittenTrades(inv[s]) # WrittenTrades(inv[t])
        /\ trades = WrittenTrades(inv[s])
        /\ WrittenBalance(inv[s]) # WrittenBalance(inv[t])
        /\ balance = WrittenBalance(inv[t])

(* ------------------------- properties: UserSidebar --------------------- *)

\* C11: in every state reached by checking and unchecking metrics and
\* choosing Sort, activeSortDimension is one of selectedDimensions, and so
\* selectedDimensions is never empty.
C11_ActiveSortSelected ==
    /\ IsSelected(selectedDimensions, activeSortDimension)
    /\ Len(selectedDimensions) >= 1

\* A metric was checked, made the sort metric, and the initial one unchecked.
C11_Witness ==
    /\ activeSortDimension = "engagement"
    /\ selectedDimensions = <<"engagement">>

\* C12 as stated: whenever a selected metric is not at once the sort metric
\* and the only selected one, unchecking it removes it from
\* selectedDimensions.
C12_UncheckRemoves ==
    \A id \in Metrics :
        (/\ SidebarMounted
         /\ open
         /\ IsSelected(selectedDimensions, id)
         /\ ~(id = activeSortDimension /\ Len(selectedDimensions) = 1))
        => ENABLED (CheckedChange(id) /\ ~IsSelected(selectedDimensions', id))

\* C13 as stated: Sort can be chosen on a metric that is not selected, and
\* doing so makes it the sort metric and adds it to selectedDimensions.
C13_SortAddsUnselected ==
    \A id \in Metrics :
        (SidebarMounted /\ open /\ ~IsSelected(selectedDimensions, id))
        => ENABLED (/\ SortClick(id)
                    /\ activeSortDimension' = id
                    /\ IsSelected(selectedDimensions', id))

\* C13, amended: Sort cannot be chosen on a metric that is not selected;
\* chosen on a selected metric it makes that metric the sort metric, leaves
\* selectedDimensions as it was and closes the popover.
C13_SortOnlySelected ==
    \A id \in Metrics :
        /\ ~IsSelected(selectedDimensions, id) => ~ENABLED SortClick(id)
        /\ (SidebarMounted /\ open /\ IsSelected(selectedDimensions, id))
           => /\ ENABLED SortClick(id)
              /\ ~ENABLED (/\ SortClick(id)
                           /\ ~(/\ activeSortDimension' = id
                                /\ selectedDimensions' = selectedDimensions
                                /\ ~open'))

\* Sort was chosen on a second metric, and a metric is now unselected while
\* the popover is open.
C13_Witness ==
    /\ activeSortDimension # "timeSpent"
    /\ open
    /\ \E id \in Metrics : ~IsSelected(selectedDimensions, id)

\* What the sidebar displays in the current state.
Displayed == rankedUsers(users, searchQuery, activeSortDimension)
\* The ids of a list of users, in order.
Ids(list) == [k \in 1..Len(list) |-> list[k].id]
\* needle is text[from..to] for some from and to.
IsSubstring(needle, text) ==
    \E from \in 1..(Len(text) + 1) :
        /\ from + Len(needle) - 1 <= Len(text)
        /\ SubSeq(text, from, from + Len(needle) - 1) = needle
\* The value a user is sorted by: the stored number, 0 when there is none.
SortValue(user) ==
    IF activeSortDimension \in DOMAIN user.metrics
    THEN user.metrics[activeSortDimension]
    ELSE 0
\* The query occurs, case aside, in the username or in the display name.
PassesFilter(user) ==
    \/ IsSubstring(toLowerCase(searchQuery), toLowerCase(user.username))
    \/ IsSubstring(toLowerCase(searchQuery), toLowerCase(user.name))

\* C14: the ranks of rankedUsers are 1, 2, ..., N in displayed order, N
\* being the number of users that pass the filter.
C14_RanksDense ==
    LET shown == Displayed
    IN  /\ \A k \in 1..Len(shown) : shown[k].rank = k
        /\ Len(shown) = Cardinality({k \in 1..Len(users) : PassesFilter(users[k])})

\* A query keeps some users out, and a displayed user's rank is not its
\* place in the stored list.
C14_Witness ==
    /\ searchQuery # <<>>
    /\ Len(Displayed) >= 2
    /\ Len(Displayed) < Len(users)
    /\ \E k \in 1..Len(Displayed) : Displayed[k].rank # Displayed[k].id + 1

\* C15: the displayed users are in descending order of the sort metric, a
\* missing value counting as 0, and users with equal values are in the order
\* of the stored list; values 5, 5, 9 are displayed third, first, second.
C15_DescendingStable ==
    LET shown == Displayed
    IN  /\ \A p, q \in 1..Len(shown) :
               p < q => \/ SortValue(shown[p]) > SortValue(shown[q])
                        \/ /\ SortValue(shown[p]) = SortValue(shown[q])
                           /\ shown[p].id < shown[q].id
        /\ (/\ searchQuery = <<>>
            /\ [k \in 1..Len(users) |-> SortValue(users[k])] = <<5, 5, 9>>)
           => Ids(shown) = <<users[3].id, users[1].id, users[2].id>>

\* The stored values are 5, 5, 9 and every user is displayed.
C15_Witness ==
    /\ searchQuery = <<>>
    /\ Len(users) = 3
    /\ [k \in 1..Len(users) |-> SortValue(users[k])] = <<5, 5, 9>>
    /\ Ids(Displayed) = <<2, 0, 1>>

\* C16: a user is displayed exactly when the lower-cased query is a
\* substring of its lower-cased username or display name; with the empty
\* query every user is displayed, and "COOL" finds "Cool Ninja".
C16_FilterIff ==
    LET shown == Displayed
    IN  /\ \A k \in 1..Len(users) :
               (\E p \in 1..Len(shown) : shown[p].id = users[k].id)
               <=> PassesFilter(users[k])
        /\ searchQuery = <<>> => Len(shown) = Len(users)
        /\ searchQuery = QueryCOOL
           => \A k \in 1..Len(users) :
                  users[k].name = CoolNinja.name
                  => \E p \in 1..Len(shown) : shown[p].id = users[k].id

\* The query is "COOL": a user named "Cool Ninja" is displayed and another
\* user is not.
C16_Witness ==
    /\ searchQuery = QueryCOOL
    /\ \E p \in 1..Len(Displayed) : Displayed[p].name = CoolNinja.name
    /\ Len(Displayed) < Len(users)

\* C17: a step that changes searchQuery or activeSortDimension leaves the
\* stored users as they were, and rank is a field of the displayed users
\* only, never of a stored user.
C17_UsersUntouched ==
    [][LET shown == Displayed
       IN  /\ (\/ searchQuery' # searchQuery
               \/ activeSortDimension' # activeSortDimension) => users' = users
           /\ \A k \in 1..Len(users') : "rank" \notin DOMAIN users'[k]
           /\ \A k \in 1..Len(shown) : "rank" \in DOMAIN shown[k]]_vars

\* A query is typed and the sort metric changed, and the displayed order is
\* not the stored order.
C17_Witness ==
    /\ searchQuery # <<>>
    /\ activeSortDimension # "timeSpent"
    /\ Len(Displayed) >= 2
    /\ \E p \in 1..Len(Displayed) : Displayed[p].id # users[p].id

(* ------------------------- properties: classifiers --------------------- *)

\* meta, message, accountKeys or the pubkey of a key is missing.
Malformed(body) ==
    \/ body.meta = None
    \/ body.message = None
    \/ body.message[1].accountKeys = None
    \/ \E k \in 1..Len(body.message[1].accountKeys[1]) :
           body.message[1].accountKeys[1][k] = None

\* C18 as stated: called on a body whose meta, message or account-key
\* entries are missing, the structural classifier does not throw and
\* returns {description: 'Unknown Transaction'}.
C18_MalformedIsUnknown ==
    (structural # None /\ Malformed(txBody))
    => structural[1] = Returned([description |-> "Unknown Transaction"])

\* The keywords in their order of priority, and the category of a result.
KeywordPriority ==
    <<"Swap", "Transfer", "Deposit", "Withdraw", "Stake", "Create", "Close">>
Category(result) ==
    CASE result[1] \in {"Swapped", "Token Swap"} -> "Swap"
      [] result[1] \in {"Transferred", "Token Transfer"} -> "Transfer"
      [] result[1] = "Deposit" -> "Deposit"
      [] result[1] = "Withdrawal" -> "Withdraw"
      [] result[1] = "Staking" -> "Stake"
      [] result[1] = "Account Creation" -> "Create"
      [] result[1] = "Account Closure" -> "Close"
      [] OTHER -> "none"
\* The log text of the classified body, when it has log messages.
HasLogs == txBody.meta # None /\ txBody.meta[1].logMessages # None
LogText == Join(txBody.meta[1].logMessages[1])

\* C19: the heuristic classifier gives a log text the category of the
\* first keyword of the priority order that occurs in it (a swap when Swap
\* and Transfer both occur), and 'Transaction' when none occurs.
C19_KeywordPriority ==
    (heuristic # None /\ HasLogs)
    => LET present == {p \in 1..Len(KeywordPriority) :
                          LogsInclude(LogText, KeywordPriority[p])}
       IN  /\ present = {} <=> heuristic[1] = <<"Transaction">>
           /\ \A p \in present :
                  (\A q \in present : p <= q)
                  => Category(heuristic[1]) = KeywordPriority[p]
           /\ (LogsInclude(LogText, "Swap") /\ LogsInclude(LogText, "Transfer"))
              => Category(heuristic[1]) = "Swap"

\* A text with two amounts in which Close, Transfer and Swap occur was
\* classified as a swap of those amounts.
C19_Witness ==
    /\ heuristic # None
    /\ HasLogs
    /\ LogsInclude(LogText, "Close")
    /\ LogsInclude(LogText, "Transfer")
    /\ heuristic[1] = <<"Swapped", "1.5", "SOL", "for", "42", "USDC">>

\* The body has a pre and a post balance for every account, and the
\* structural classifier has returned its details.
Classified ==
    /\ structural # None
    /\ ~Malformed(txBody)
    /\ txBody.meta[1].preBalances # None
    /\ txBody.meta[1].postBalances # None

\* C20: balanceChanges has one entry for each account whose post-lamports
\* differ from its pre-lamports and no other entry, in account-list order.
C20_BalanceChangesIff ==
    Classified
    => LET details == structural[1].value
           pre == txBody.meta[1].preBalances[1]
           post == txBody.meta[1].postBalances[1]
           changed == {k \in 1..Len(details.accounts) : post[k] # pre[k]}
           Nth(j) == CHOOSE k \in changed :
                         Cardinality({i \in changed : i < k}) = j - 1
       IN  /\ Len(details.balanceChanges) = Cardinality(changed)
           /\ \A j \in 1..Len(details.balanceChanges) :
                  details.balanceChanges[j].account = details.accounts[Nth(j)]

\* Of two accounts only the second changed, by less than 0.0001 SOL.
C20_Witness ==
    /\ Classified
    /\ Len(structural[1].value.accounts) = 2
    /\ txBody.meta[1].postBalances[1][1] = txBody.meta[1].preBalances[1][1]
    /\ txBody.meta[1].postBalances[1][2] = txBody.meta[1].preBalances[1][2] + 40000
    /\ Len(structural[1].value.balanceChanges) = 1
    /\ structural[1].value.balanceChanges[1].account = PubkeyAt(2)

(* ---------------------- properties: the fetch pipeline ----------------- *)

\* Rounds a history of n signatures takes: ceil(n / batchSize).
Rounds(n) == (n + batchSize - 1) \div batchSize
\* Requests of an invocation that are awaiting their response.
Pending(l) == {k \in 1..Len(l.responses) : l.responses[k] = "pending"}

\* C21: over n > 0 signatures, as many delays have been taken as rounds have
\* completed before the current one; during a delay no request of the next
\* round has been issued; a fetch that ends has run ceil(n / batchSize)
\* rounds and taken one delay fewer, none after the last round.
C21_PacingDelays ==
    \A s \in Slots :
        LET l == inv[s]
            n == Len(l.allSignatures)
        IN  /\ l.pc = "batch" => l.delays = l.i \div batchSize
            /\ l.pc = "delay"
               => /\ l.delays = l.i \div batchSize + 1
                  /\ l.i + batchSize < n
                  /\ \A k \in 1..n : k > l.i + batchSize => l.responses[k] = "unsent"
            /\ (l.pc = "done" /\ l.exit = "sorted")
               => /\ l.i = Rounds(n) * batchSize
                  /\ l.delays = Rounds(n) - 1

\* A fetch over more signatures than one batch holds has ended.
C21_Witness ==
    \E s \in Slots :
        /\ Done(s) /\ inv[s].exit = "sorted"
        /\ Len(inv[s].allSignatures) > batchSize
        /\ inv[s].delays = 1

\* C22: an invocation never has more than batchSize transaction-body
\* requests awaiting their response.
C22_InFlightBounded ==
    \A s \in Slots : Cardinality(Pending(inv[s])) <= batchSize

\* A full batch is awaiting its responses, with signatures left for later.
C22_Witness ==
    \E s \in Slots :
        /\ Cardinality(Pending(inv[s])) = batchSize
        /\ Len(inv[s].allSignatures) > batchSize

\* C23: when the account lookup resolves with no account, balance becomes 0,
\* error stays '' and the invocation goes on to request the signature
\* history.
C23_AbsentAccountIsZero ==
    \A s \in Slots :
        inv[s].pc = "getAccountInfo"
        => /\ ENABLED AccountInfoResolves(s, None)
           /\ ~ENABLED (/\ AccountInfoResolves(s, None)
                        /\ ~(/\ balance' = Some(0)
                             /\ error = ""
                             /\ error' = ""
                             /\ inv'[s].pc = "getSignatures"
                             /\ inv'[s].signatureCalls = 1
                             /\ inv'[s].exit = "none"))

\* The lookup found no account; the invocation is awaiting the signature
\* history with balance 0 displayed.
C23_Witness ==
    \E s \in Slots :
        /\ inv[s].pc = "getSignatures"
        /\ inv[s].accountInfo = None
        /\ inv[s].signatureCalls = 1
        /\ balance = Some(0)
        /\ error = ""
        /\ loading

\* The records of the signatures 1..upto whose request resolved with a
\* body, in the order of the signature list.  Every explored body gives the
\* same classification, so BodyTransfer stands for the body received.
ExpectedByKind ==
    [kind \in SigKinds |->
        TransactionRecord([signature |-> 0, blockTime |-> kind[1], err |-> kind[2]],
                          BodyTransfer)]
ExpectedRecord(sig) ==
    [ExpectedByKind[<<sig.blockTime, sig.err>>] EXCEPT !.signature = sig.signature]
RECURSIVE RecordsInListOrder(_, _)
RecordsInListOrder(l, upto) ==
    IF upto = 0 THEN <<>>
    ELSE RecordsInListOrder(l, upto - 1)
            \o (IF l.responses[upto] = "body"
                THEN <<ExpectedRecord(l.allSignatures[upto])>>
                ELSE <<>>)

\* C24: the collected records, and the final trades list, are determined by
\* the signature list and the outcome of each signature's request alone;
\* the order in which the requests of a round complete has no influence on
\* the content or the order.
C24_CompletionOrderIrrelevant ==
    \A s \in Slots :
        LET l == inv[s]
            n == Len(l.allSignatures)
        IN  /\ l.pc = "batch"
               => /\ l.allTransactions = RecordsInListOrder(l, l.i)
                  /\ \A j \in 1..Len(l.batchTransactions) :
                         l.batchTransactions[j] =
                            IF l.responses[l.i + j] = "body"
                            THEN Some(ExpectedRecord(l.allSignatures[l.i + j]))
                            ELSE None
            /\ l.pc = "delay"
               => l.allTransactions = RecordsInListOrder(l, l.i + batchSize)
            /\ (l.pc = "done" /\ l.exit = "sorted")
               => trades = SortTrades(RecordsInListOrder(l, n))

\* In a round, the request of a later signature has resolved with a body
\* while the request of an earlier signature is still pending.
C24_Witness ==
    \E s \in Slots :
        /\ inv[s].pc = "batch"
        /\ inv[s].i + 2 <= Len(inv[s].responses)
        /\ inv[s].responses[inv[s].i + 1] = "pending"
        /\ inv[s].responses[inv[s].i + 2] = "body"
        /\ inv[s].batchTransactions[2] # None

\* C25: within one invocation each RPC request is made once: one account
\* lookup, one signature-history lookup and one transaction request per
\* returned signature, none of them repeated after a failure.
C25_SingleAttempt ==
    \A s \in Slots :
        LET l == inv[s]
            n == Len(l.allSignatures)
        IN  /\ l.accountCalls <= 1
            /\ l.signatureCalls <= 1
            /\ l.pc \in {"getAccountInfo", "getSignatures", "batch", "delay"}
               => l.accountCalls = 1
            /\ l.pc \in {"getSignatures", "batch", "delay"} => l.signatureCalls = 1
            /\ Len(l.txCalls) = n
            /\ \A k \in 1..n :
                   l.txCalls[k] = IF l.responses[k] = "unsent" THEN 0 ELSE 1
            /\ (l.pc = "done" /\ l.exit \in {"sorted", "empty"})
               => /\ l.accountCalls = 1
                  /\ l.signatureCalls = 1
                  /\ \A k \in 1..n : l.txCalls[k] = 1
            /\ (l.pc = "done" /\ l.exit = "catch")
               => /\ l.signatureCalls = 1 => l.accountCalls = 1
                  /\ n = 0

\* A fetch ran to its end although requests of it were rejected.
C25_Witness ==
    \E s \in Slots :
        /\ Done(s) /\ inv[s].exit = "sorted"
        /\ Len(inv[s].allSignatures) > batchSize
        /\ \E k \in 1..Len(inv[s].responses) :
               inv[s].responses[k] = "rejected" /\ inv[s].txCalls[k] = 1

\* The signature record a collected record was built from.
SigOf(l, record) == l.allSignatures[record.signature]
\* P holds of every record invocation l holds, collected or still in the
\* round's array.
EveryHeldRecord(l, P(_)) ==
    /\ \A p \in 1..Len(l.allTransactions) : P(l.allTransactions[p])
    /\ \A j \in 1..Len(l.batchTransactions) :
           l.batchTransactions[j] # None => P(l.batchTransactions[j][1])
BodyResponses == {response \in TxResponses : response.kind = "body"}

\* C26: a record's success flag is true exactly when its signature record
\* carries no error, whatever the err field of the fetched transaction's
\* meta: every record held satisfies it, and no body a pending request can
\* resolve with, failed or not, yields a record that does not.
C26_SuccessFromSignature ==
    \A s \in Slots :
        LET l == inv[s]
            FlagFromSignature(record) ==
                record.successful = (SigOf(l, record).err = None)
        IN  /\ EveryHeldRecord(l, FlagFromSignature)
            /\ (l.pc = "done" /\ l.exit = "sorted")
               => \A p \in 1..Len(trades) :
                      trades[p].successful = (SigOf(l, trades[p]).err = None)
            /\ l.pc = "batch"
               => \A k \in Pending(l), response \in BodyResponses :
                      /\ ENABLED TransactionSettles(s, k, response)
                      /\ ~ENABLED (/\ TransactionSettles(s, k, response)
                                   /\ LET made == inv'[s].batchTransactions[k - l.i]
                                      IN  \/ made = None
                                          \/ made[1].successful
                                                # (l.allSignatures[k].err = None))

\* The final list shows a successful record and a failed one.
C26_Witness ==
    \E s \in Slots :
        /\ Done(s) /\ inv[s].exit = "sorted"
        /\ \E p, q \in 1..Len(trades) :
               /\ trades[p].successful
               /\ SigOf(inv[s], trades[p]).err = None
               /\ ~trades[q].successful
               /\ SigOf(inv[s], trades[q]).err # None

\* C27: a record whose signature has no block time has blockTime 0 and the
\* timestamp 'Unknown time', and in the final list it comes after every
\* record with a positive block time.
C27_MissingTimeLast ==
    \A s \in Slots :
        LET l == inv[s]
            Undated(record) ==
                SigOf(l, record).blockTime = None
                => record.blockTime = 0 /\ record.timestamp = "Unknown time"
        IN  /\ EveryHeldRecord(l, Undated)
            /\ (l.pc = "done" /\ l.exit = "sorted")
               => \A p \in 1..Len(trades) :
                      SigOf(l, trades[p]).blockTime = None
                      => /\ trades[p].blockTime = 0
                         /\ trades[p].timestamp = "Unknown time"
                         /\ \A q \in 1..Len(trades) :
                                trades[q].blockTime > 0 => q < p

\* The signature without block time came first in the history and its
\* record is last in the final list, behind a dated one.
C27_Witness ==
    \E s \in Slots :
        /\ Done(s) /\ inv[s].exit = "sorted"
        /\ Len(trades) >= 2
        /\ inv[s].allSignatures[1].blockTime = None
        /\ trades[Len(trades)].signature = 1
        /\ trades[Len(trades)].timestamp = "Unknown time"
        /\ trades[1].blockTime > 0

(* --------------------- properties: the displayed state ------------------ *)

\* C28: with at most one fetch in flight at a time, a non-empty error is
\* never shown together with a balance or a transaction list.
C28_ErrorExcludesData ==
    error # "" => balance = None /\ trades = <<>>

\* A fetch aborted after a balance had been written by it: the banner
\* shows the error and the balance is gone.
C28_Witness ==
    \E s \in Slots :
        /\ Done(s) /\ inv[s].exit = "catch"
        /\ inv[s].signatureCalls = 1
        /\ inv[s].accountInfo # None
        /\ error # ""
        /\ balance = None

\* A step in which slot s begins an invocation.
Started(s) == Free(s) /\ inv'[s] # inv[s]

\* C29 as stated: every start of a fetch sets loading, clears error and
\* trades, and leaves the balance as it was.
C29_EveryStartKeepsBalance ==
    [][\A s \in Slots :
          Started(s) => /\ loading'
                        /\ error' = ""
                        /\ trades' = <<>>
                        /\ balance' = balance]_vars

\* C29: with at most one fetch in flight, the start of a fetch whose
\* address decodes sets loading, clears error and trades and leaves the
\* balance as it was until the account lookup settles, and trades stays
\* empty until the final sorted list is written; the start of a fetch whose
\* address does not decode is also its end, with the error set, balance
\* null, trades empty and loading false.
C29_StartFrame ==
    [][\A s \in Slots :
          /\ Started(s)
             => IF DecodesToPublicKey(inv'[s].address)
                THEN /\ inv'[s].pc = "getAccountInfo"
                     /\ loading'
                     /\ error' = ""
                     /\ trades' = <<>>
                     /\ balance' = balance
                ELSE /\ inv'[s].pc = "done"
                     /\ ~loading'
                     /\ error' = InvalidPublicKeyMessage
                     /\ trades' = <<>>
                     /\ balance' = None
          /\ inv'[s].pc = "getAccountInfo" => balance' = balance
          /\ inv'[s].pc \notin {"idle", "done"} => trades' = <<>>
          /\ (InFlight(s) /\ trades' # <<>>)
             => /\ inv'[s].pc = "done"
                /\ inv'[s].exit = "sorted"
                /\ trades' = SortTrades(inv'[s].allTransactions)]_vars

\* A fetch has started while the balance of the fetch before it is shown.
C29_Witness ==
    \E s \in Slots :
        /\ inv[s].pc = "getAccountInfo"
        /\ balance = Some(2)
        /\ loading
        /\ error = ""
        /\ trades = <<>>

\* C30: also when invocations overlap, loading is true in every state in
\* which an invocation is in flight.
C30_LoadingWhileInFlight ==
    (\E s \in Slots : InFlight(s)) => loading

====
